---- MODULE Spec2Model ----
(***************************************************************************)
(* Model of the MScape ingest validator                                    *)
(* (roz_scripts/mscape/mscape_ingest_validation.py).                        *)
(*                                                                         *)
(* Python values are represented as follows.                               *)
(*   - A text (an error string, an f-string) is a tuple of strings: the    *)
(*     literal part first, the formatted-in values after it.               *)
(*   - payload["cid"] is False until a record is created; False is the     *)
(*     empty string NoCid here.                                            *)
(*   - A dict with ordered keys (onyx_errors, the trace dict) is a         *)
(*     sequence of [key, val] entries in insertion order.                  *)
(*   - An object key or URI is a [bucket, key] record, the key a tuple of  *)
(*     its formatted parts.                                                *)
(*   - A function of the program is an operator from its arguments and the *)
(*     outcome of the external calls it makes to a result record: exc is   *)
(*     the exception that leaves the function ("none" when it returns),    *)
(*     payload the payload as the function left it (the payload dict is    *)
(*     mutated in place, so its changes survive a raise), sent the         *)
(*     messages it sent and calls the external calls it made, in order.    *)
(*   - The object returned by varys receive is used both as message.body   *)
(*     and as message['site'] / message['uuid']; its class is not part of  *)
(*     the sources, and subscripting it is taken to yield the field of the *)
(*     body.                                                               *)
(***************************************************************************)
EXTENDS Integers, Sequences, FiniteSets, TLC

VARIABLES
    pc,        \* position of run() in its loop body, or of a harness
    inbound,   \* to_validate: the decoded body of the message being processed
    payload,   \* the working payload of the pass
    site,      \* message['site'] of the message being processed
    sent,      \* messages sent during the pass, in order
    calls,     \* external calls made during the pass, in order
    exc,       \* the exception that left run() ("none" while it runs)
    passes,    \* number of messages received so far
    flags,     \* raw_read_fail, binned_read_fail, report_fail of the pass
    store      \* cids of the records created in the record store, in order

vars == <<pc, inbound, payload, site, sent, calls, exc, passes, flags, store>>

(***************************************************************************)
(* Bounds of the model.                                                    *)
(***************************************************************************)
MaxPasses == 2
MaxRows == 2
MaxTaxa == 2

(***************************************************************************)
(* Values.                                                                 *)
(***************************************************************************)
NoCid == ""
NoFlags == [ingest_fail |-> FALSE, raw |-> FALSE, binned |-> FALSE,
            report |-> FALSE, tried |-> {}]

Uuids == {"u1", "u2"}
Projects == {"mscapetest", "covid"}
Platforms == {"ont", "illumina", "pacbio"}
UpstreamError == <<"upstream ingest error">>

\* Sequences over S of length at most n.
SeqUpTo(S, n) == UNION {[1..k -> S] : k \in 0..n}

\* s is a prefix of t.
IsPrefix(s, t) == Len(s) <= Len(t) /\ SubSeq(t, 1, Len(s)) = s

\* Concatenation of a sequence of sequences.
RECURSIVE Flatten(_)
Flatten(ss) == IF ss = <<>> THEN <<>> ELSE Head(ss) \o Flatten(Tail(ss))

(***************************************************************************)
(* Ordered dicts: payload["onyx_errors"] and the trace dict.               *)
(***************************************************************************)
DictKeys(d) == {d[i].key : i \in 1..Len(d)}

\* d.get(k): the value, or <<>> (falsy) when the key is missing.
DictGet(d, k) ==
    IF k \in DictKeys(d)
    THEN (d[CHOOSE i \in 1..Len(d) : d[i].key = k]).val
    ELSE <<>>

\* d[k] = v: an existing key keeps its place, a new key goes last.
DictSet(d, k, v) ==
    IF k \in DictKeys(d)
    THEN [i \in 1..Len(d) |-> IF d[i].key = k THEN [key |-> k, val |-> v] ELSE d[i]]
    ELSE Append(d, [key |-> k, val |-> v])

(***************************************************************************)
(* Messages.                                                               *)
(***************************************************************************)
\* varys_client.send(message=body, exchange=f"inbound.results.mscape.{s}")
ResultsMsg(s, body) == [exchange |-> <<"inbound.results.mscape", s>>, body |-> body]

NewArtifactMsg(body) == [exchange |-> <<"inbound.new_artifact.mscape">>, body |-> body]

IsResults(m) == m.exchange[1] = "inbound.results.mscape"

Results(ms) == SelectSeq(ms, IsResults)

AppendError(p, e) == [p EXCEPT !.ingest_errors = Append(@, e)]

(***************************************************************************)
(* pipeline.execute: subprocess.run under timeout_seconds.  On             *)
(* TimeoutExpired only `timeout` is assigned; `proc` stays unbound and the *)
(* return statement that reads proc.returncode raises UnboundLocalError.   *)
(***************************************************************************)
execute(out) ==
    IF out.timed_out
    THEN [exc |-> "UnboundLocalError", rc |-> out.rc, timeout |-> TRUE]
    ELSE [exc |-> "none", rc |-> out.rc, timeout |-> FALSE]

\* Outcomes of the subprocess: it exceeds the budget, or exits with a code.
SubprocessOutcomes ==
    {[timed_out |-> TRUE, rc |-> 0]} \cup {[timed_out |-> FALSE, rc |-> c] : c \in 0..2}

\* str(rc) as formatted into the error text.
RcText(rc) == CASE rc = 0 -> "0" [] rc = 1 -> "1" [] rc = 2 -> "2" [] OTHER -> "n"

(***************************************************************************)
(* execute_validation_pipeline: builds the parameters by platform and      *)
(* always goes on to ingest_pipe.execute; an unrecognised platform is only *)
(* logged.                                                                 *)
(***************************************************************************)
PipelineParams(p) ==
    {"out_dir", "unique_id", "climb", "max_human_reads_before_rejection",
     "k2_host", "k2_port", "db"}
    \cup (IF p.platform = "ont" THEN {"fastq"}
          ELSE IF p.platform = "illumina" THEN {"fastq1", "fastq2", "paired"}
          ELSE {})

execute_validation_pipeline(p, out) ==
    LET r == execute(out)
    IN [exc |-> r.exc, rc |-> r.rc, timeout |-> r.timeout,
        calls |-> <<[op |-> "pipeline", unique_id |-> p.uuid,
                     platform |-> p.platform, params |-> PipelineParams(p),
                     timed_out |-> out.timed_out, raised |-> r.exc,
                     timeout |-> r.timeout, rc |-> out.rc]>>]

(***************************************************************************)
(* ret_0_parser.                                                           *)
(***************************************************************************)
TraceNames == {<<"extract_paired_reads">>, <<"ingest", "extract_reads">>,
               <<"ingest", "fastp">>, <<"fastp">>}
TraceExits == {"0", "1", "2"}
TraceRows == [name : TraceNames, exit : TraceExits]

\* How reading the trace ends: every row read; open() raises; the reader
\* raises after the rows given were read.
Traces ==
    {[kind |-> "open_fails", rows |-> <<>>]}
    \cup [kind : {"ok", "parse_fails"}, rows : SeqUpTo(TraceRows, MaxRows)]

\* process["name"].split(":")[-1]
ShortName(name) == name[Len(name)]

RowStatus(row) == IF row.exit = "0" THEN "COMPLETED" ELSE "FAILED"

\* TraceDict with the first row of a short name kept instead of the last.
RECURSIVE TraceDictFirstWins(_)
TraceDictFirstWins(rows) ==
    IF rows = <<>> THEN <<>>
    ELSE LET d == TraceDictFirstWins(SubSeq(rows, 1, Len(rows) - 1))
             k == ShortName(rows[Len(rows)].name)
         IN IF k \in DictKeys(d) THEN d ELSE DictSet(d, k, rows[Len(rows)])

\* trace_dict after the rows were read: trace_dict[short name] = row.
RECURSIVE TraceDict(_)
TraceDict(rows) ==
    IF rows = <<>> THEN <<>>
    ELSE DictSet(TraceDict(SubSeq(rows, 1, Len(rows) - 1)),
                 ShortName(rows[Len(rows)].name), rows[Len(rows)])

HumanReadsError ==
    <<"Human reads detected above rejection threshold, please ensure pre-upload dehumanisation has been performed properly">>

ProcessError(process, row) ==
    <<"MScape validation pipeline (Scylla) failed in process", process,
      "with exit code", row.exit, "and status", RowStatus(row)>>

\* The errors one entry of trace_dict appends.  Python binds `and` tighter
\* than `or`: extract_paired_reads with any non-zero exit takes the first
\* branch.
RowErrors(process, row) ==
    IF row.exit # "0"
    THEN IF process = "extract_paired_reads"
            \/ (process = "extract_reads" /\ row.exit = "2")
         THEN <<HumanReadsError>>
         ELSE <<ProcessError(process, row)>>
    ELSE <<>>

TraceErrors(d) == Flatten([i \in 1..Len(d) |-> RowErrors(d[i].key, d[i].val)])

TraceOpenError == <<"couldn't open nxf ingest pipeline trace">>

ret_0_parser(p, s, trace) ==
    LET unread == trace.kind # "ok"
        p1 == IF unread THEN AppendError(p, TraceOpenError) ELSE p
        sent1 == IF unread THEN <<ResultsMsg(s, p1)>> ELSE <<>>
        errs == TraceErrors(TraceDict(trace.rows))
    IN IF trace.kind = "open_fails"
       THEN \* trace_dict was never assigned: line 612 raises
            [exc |-> "UnboundLocalError", failed |-> TRUE, payload |-> p1,
             sent |-> sent1]
       ELSE [exc |-> "none", failed |-> unread \/ errs # <<>>,
             payload |-> [p1 EXCEPT !.ingest_errors = @ \o errs],
             sent |-> sent1]

(***************************************************************************)
(* onyx_submission(log, payload, varys_client).                            *)
(*                                                                         *)
(* `ingest_fail` is a local that only the failure branches assign.  On 201 *)
(* and in the except handler it is unbound: `if ingest_fail:` (inside the  *)
(* try) raises UnboundLocalError, which the handler catches, and the       *)
(* return statement after the handler raises it again.  The send of the    *)
(* failure branches reads payload['site_code'] inside the try.             *)
(***************************************************************************)
ClientErrorsKey == "onyx_client_errors"

StatusText(st) ==
    CASE st = 200 -> "200" [] st = 201 -> "201" [] st = 400 -> "400"
      [] st = 401 -> "401" [] st = 403 -> "403" [] st = 404 -> "404"
      [] st = 418 -> "418" [] st = 422 -> "422" [] st = 500 -> "500"
      [] OTHER -> "n"

SetClientErrors(p, text) ==
    [p EXCEPT !.onyx_errors = DictSet(@, ClientErrorsKey, <<text>>)]

UnhandledClientError(e) == <<"Unhandled client error", e>>

\* MergeField with the extend branch lost: the new messages replace the old.
MergeFieldOverwrites(errors, field, messages) == DictSet(errors, field, messages)

\* One (field, messages) pair of a response merged into onyx_errors.
MergeField(errors, field, messages) ==
    IF DictGet(errors, field) # <<>>
    THEN DictSet(errors, field, DictGet(errors, field) \o messages)
    ELSE DictSet(errors, field, messages)

\* for field, messages in response.json()["messages"].items(): ...
RECURSIVE MergeMessages(_, _)
MergeMessages(errors, messages) ==
    IF messages = <<>> THEN errors
    ELSE MergeMessages(MergeField(errors, Head(messages).key, Head(messages).val),
                       Tail(messages))

\* CreateDispatch with the 201 branch taken for 200 as well.
CreateDispatchTrusts200(p, out) ==
    [bound |-> out.status \notin {200, 201},
     payload |-> IF out.status \in {200, 201}
                 THEN [p EXCEPT !.onyx_status_code = out.status,
                                !.onyx_create_status = TRUE,
                                !.created = TRUE,
                                !.cid = out.cid]
                 ELSE SetClientErrors([p EXCEPT !.onyx_status_code = out.status],
                                      <<"Onyx create failed">>)]

\* The status dispatch of lines 167-248 for a response whose body parses:
\* bound says whether ingest_fail was assigned.
CreateDispatch(p, out) ==
    LET q == [p EXCEPT !.onyx_status_code = out.status]
        st == out.status
    IN CASE st = 500 ->
              [bound |-> TRUE, payload |-> SetClientErrors(q, <<"Onyx internal server error">>)]
         [] st = 422 ->
              [bound |-> TRUE,
               payload |-> [q EXCEPT !.onyx_errors = MergeMessages(@, out.messages)]]
         [] st = 404 ->
              [bound |-> TRUE,
               payload |-> SetClientErrors(q, <<"Project", q.project, "does not exist">>)]
         [] st = 403 ->
              [bound |-> TRUE,
               payload |-> SetClientErrors(q, <<"Bad fields in onyx create request">>)]
         [] st = 401 ->
              [bound |-> TRUE, payload |-> SetClientErrors(q, <<"Incorrect Onyx credentials">>)]
         [] st = 400 ->
              [bound |-> TRUE, payload |-> SetClientErrors(q, <<"Malformed onyx create request">>)]
         [] st = 200 ->
              [bound |-> TRUE,
               payload |-> SetClientErrors(q, <<"200 response status on onyx create (should be 201)">>)]
         [] st = 201 ->
              [bound |-> FALSE,
               payload |-> [q EXCEPT !.onyx_create_status = TRUE,
                                     !.created = TRUE,
                                     !.cid = out.cid]]
         [] OTHER ->
              [bound |-> TRUE,
               payload |-> SetClientErrors(q,
                   <<"Unhandled response status code", StatusText(st), "from Onyx create">>)]

\* response.json() is read by the 422 branch and by the 201 branch.
ReadsJson(st) == st \in {201, 422}

onyx_submission(p, out) ==
    LET call == [op |-> "csv_create", project |-> p.project, cid_before |-> p.cid,
                 uuid |-> p.uuid, outcome |-> out]
    IN IF out.kind = "fetch_raises"
       THEN \* utils.s3_to_fh raises before csv_create is called
            [exc |-> "UnboundLocalError", failed |-> FALSE,
             payload |-> SetClientErrors(p, UnhandledClientError(out.err)),
             sent |-> <<>>, calls |-> <<>>, stored |-> NoCid]
       ELSE IF out.kind = "create_raises"
       THEN [exc |-> "UnboundLocalError", failed |-> FALSE,
             payload |-> SetClientErrors(p, UnhandledClientError(out.err)),
             sent |-> <<>>, calls |-> <<call>>, stored |-> NoCid]
       ELSE LET stored == IF out.status = 201 THEN out.cid ELSE NoCid
                q == [p EXCEPT !.onyx_status_code = out.status]
                d == CreateDispatch(p, out)
            IN IF ReadsJson(out.status) /\ ~out.json_ok
               THEN \* response.json() raises: 422 has assigned ingest_fail, 201 has not
                    [exc |-> IF out.status = 422 THEN "none" ELSE "UnboundLocalError",
                     failed |-> out.status = 422,
                     payload |-> SetClientErrors(q, UnhandledClientError("JSONDecodeError")),
                     sent |-> <<>>, calls |-> <<call>>, stored |-> stored]
               ELSE IF ~d.bound
               THEN [exc |-> "UnboundLocalError", failed |-> FALSE,
                     payload |-> SetClientErrors(d.payload,
                                     UnhandledClientError("UnboundLocalError")),
                     sent |-> <<>>, calls |-> <<call>>, stored |-> stored]
               ELSE IF d.payload.site_code = ""
               THEN \* payload['site_code'] raises KeyError inside the try
                    [exc |-> "none", failed |-> TRUE,
                     payload |-> SetClientErrors(d.payload, UnhandledClientError("KeyError")),
                     sent |-> <<>>, calls |-> <<call>>, stored |-> stored]
               ELSE [exc |-> "none", failed |-> TRUE, payload |-> d.payload,
                     sent |-> <<ResultsMsg(d.payload.site_code, d.payload)>>,
                     calls |-> <<call>>, stored |-> stored]

\* The parameters of onyx_submission, and the keywords run() calls it with.
onyx_submission_params == {"log", "payload", "varys_client"}

RunCreateKeywords == {"log", "payload", "varys_client", "ingest_fail"}

BadValue == <<"bad value">>
OtherValue == <<"other value">>

\* The messages object of a 422 response: an ordered dict field -> messages.
MessageDicts ==
    {<<>>,
     <<[key |-> "field_x", val |-> <<BadValue>>]>>,
     <<[key |-> "field_y", val |-> <<BadValue, OtherValue>>]>>,
     <<[key |-> "field_x", val |-> <<BadValue>>],
       [key |-> "field_y", val |-> <<OtherValue>>]>>}

CreateStatuses == {200, 201, 400, 401, 403, 404, 418, 422, 500}

\* Outcomes of lines 155-163, given the cid the store would assign.
CreateOutcomes(newcid) ==
    {[kind |-> k, err |-> "ConnectionError"] : k \in {"fetch_raises", "create_raises"}}
    \cup {[kind |-> "response", status |-> st, json_ok |-> TRUE,
           messages |-> <<>>, cid |-> newcid] : st \in CreateStatuses \ {422}}
    \cup {[kind |-> "response", status |-> 422, json_ok |-> TRUE,
           messages |-> m, cid |-> newcid] : m \in MessageDicts}
    \cup {[kind |-> "response", status |-> st, json_ok |-> FALSE,
           messages |-> <<>>, cid |-> newcid] : st \in {201, 422}}

CidNames == <<"C-1", "C-2", "C-3", "C-4">>

\* The cid the store assigns to its next record.
NextCid(st) == CidNames[Len(st) + 1]


(***************************************************************************)
(* The publish operations.  `fails` is the set of object keys whose        *)
(* upload_file raises ClientError; `upd` is the outcome of client.update.  *)
(***************************************************************************)
ReadsBucket == "mscapetest-published-reads"
BinnedBucket == "mscapetest-published-binned-reads"
ReportsBucket == "mscapetest-published-reports"

Uri(bucket, key) == [bucket |-> bucket, key |-> key]

UploadCall(bucket, key, p, fails) ==
    [op |-> "upload", bucket |-> bucket, key |-> key, cid |-> p.cid,
     ok |-> key \notin fails]

UpdateCall(cid, fields, upd) ==
    [op |-> "update", project |-> "mscapetest", cid |-> cid, fields |-> fields,
     outcome |-> upd]

\* Outcomes of client.update: a response, or an exception.
UpdateOutcomes ==
    {[kind |-> "response", status |-> 200, json_ok |-> TRUE, messages |-> <<>>],
     [kind |-> "response", status |-> 500, json_ok |-> TRUE, messages |-> <<>>],
     [kind |-> "response", status |-> 500, json_ok |-> FALSE, messages |-> <<>>],
     [kind |-> "response", status |-> 422, json_ok |-> TRUE,
      messages |-> <<[key |-> "field_x", val |-> <<BadValue>>]>>],
     [kind |-> "raise", err |-> "HTTPError"],
     [kind |-> "raise", err |-> "ConnectionError"]}

ReadsUploadError == <<"Failed to upload reads to storage bucket">>

TaxonUploadError(taxon) ==
    <<"Failed to upload binned reads for taxon:", taxon, "to storage bucket">>

ReportUploadError == <<"Failed to upload scylla report to storage bucket">>

\* The keys add_reads_record uploads to, in order.
ReadsKeys(p) ==
    IF p.platform = "illumina"
    THEN <<(<<p.cid, "_1.fastq.gz">>), (<<p.cid, "_2.fastq.gz">>)>>
    ELSE <<(<<p.cid, ".fastq.gz">>)>>

\* The fields add_reads_record links: reads_1 is <cid>_1.fastq.gz on both
\* platforms.
ReadsFields(p) ==
    IF p.platform = "illumina"
    THEN <<[key |-> "reads_1", val |-> Uri(ReadsBucket, <<p.cid, "_1.fastq.gz">>)],
           [key |-> "reads_2", val |-> Uri(ReadsBucket, <<p.cid, "_2.fastq.gz">>)]>>
    ELSE <<[key |-> "reads_1", val |-> Uri(ReadsBucket, <<p.cid, "_1.fastq.gz">>)]>>

\* add_reads_record with the test of raw_read_fail before the update lost.
add_reads_record_always_links(cid, p, fails, upd) ==
    LET keys == ReadsKeys(p)
        uploads == [i \in 1..Len(keys) |-> UploadCall(ReadsBucket, keys[i], p, fails)]
        errs == Flatten([i \in 1..Len(keys) |->
                    IF keys[i] \in fails THEN <<ReadsUploadError>> ELSE <<>>])
    IN [exc |-> "none", shape |-> "pair", failed |-> errs # <<>>,
        payload |-> [p EXCEPT !.ingest_errors = @ \o errs],
        calls |-> Append(uploads, UpdateCall(cid, ReadsFields(p), upd))]

\* add_reads_record(cid, payload, s3_client, result_path, log).  shape is
\* what it returns: the (raw_read_fail, payload) pair, or the response of
\* client.update (lines 523 and 557).
add_reads_record(cid, p, fails, upd) ==
    LET keys == ReadsKeys(p)
        uploads == [i \in 1..Len(keys) |-> UploadCall(ReadsBucket, keys[i], p, fails)]
        errs == Flatten([i \in 1..Len(keys) |->
                    IF keys[i] \in fails THEN <<ReadsUploadError>> ELSE <<>>])
        p1 == [p EXCEPT !.ingest_errors = @ \o errs]
        upload_fail == errs # <<>>
        update == UpdateCall(cid, ReadsFields(p), upd)
    IN IF upload_fail
       THEN [exc |-> "none", shape |-> "pair", failed |-> TRUE, payload |-> p1,
             calls |-> uploads]
       ELSE IF upd.kind = "response"
       THEN [exc |-> "none", shape |-> "response", failed |-> FALSE, payload |-> p1,
             calls |-> Append(uploads, update)]
       ELSE IF upd.err = "HTTPError"
       THEN [exc |-> "none", shape |-> "pair", failed |-> TRUE, payload |-> p1,
             calls |-> Append(uploads, update)]
       ELSE [exc |-> upd.err, shape |-> "pair", failed |-> FALSE, payload |-> p1,
             calls |-> Append(uploads, update)]

\* Lines 367-390 and 439-462: what the response of client.update, or the
\* exception it raises, does to the payload.
UpdateEffect(p, upd) ==
    IF upd.kind = "raise"
    THEN [failed |-> TRUE, payload |-> SetClientErrors(p, UnhandledClientError(upd.err))]
    ELSE IF upd.status = 200
    THEN [failed |-> FALSE, payload |-> p]
    ELSE IF ~upd.json_ok
    THEN [failed |-> TRUE,
          payload |-> SetClientErrors(p, UnhandledClientError("JSONDecodeError"))]
    ELSE [failed |-> TRUE,
          payload |-> [p EXCEPT !.onyx_errors = MergeMessages(@, upd.messages)]]

\* Entries of reads_summary.json.
Taxa == {[taxon |-> "9606", taxon_id |-> "id9606"], [taxon |-> "562", taxon_id |-> "id562"]}

Summaries ==
    {[kind |-> "unreadable", taxa |-> <<>>]}
    \cup [kind : {"ok"}, taxa : SeqUpTo(Taxa, MaxTaxa)]

\* The keys add_taxon_records uploads to for one taxon, in order.
TaxonKeys(p, taxa) ==
    IF p.platform = "illumina"
    THEN <<(<<p.cid, "/", taxa.taxon, "_1.fastq.gz">>),
           (<<p.cid, "/", taxa.taxon, "_2.fastq.gz">>)>>
    ELSE IF p.platform = "ont"
    THEN <<(<<p.cid, "/", taxa.taxon, ".fastq.gz">>)>>
    ELSE <<>>

ReadsFieldNames == <<"reads_1", "reads_2">>

\* One pass of the loop over the summary (lines 290-357): the sub-record
\* appended to nested_records (none when the ont branch continues), the
\* errors appended, the uploads made.
TaxonStep(p, taxa, fails) ==
    LET keys == TaxonKeys(p, taxa)
        ok == {i \in 1..Len(keys) : keys[i] \notin fails}
        uris == Flatten([i \in 1..Len(keys) |->
                    IF i \in ok
                    THEN <<[key |-> ReadsFieldNames[i], val |-> Uri(BinnedBucket, keys[i])]>>
                    ELSE <<>>])
        taxon_dict == [taxon_id |-> taxa.taxon_id, metrics |-> taxa.taxon, uris |-> uris]
        failed == ok # 1..Len(keys)
    IN [records |-> IF p.platform = "ont" /\ failed THEN <<>> ELSE <<taxon_dict>>,
        errors |-> [i \in 1..(Len(keys) - Cardinality(ok)) |-> TaxonUploadError(taxa.taxon)],
        failed |-> failed \/ p.platform \notin {"illumina", "ont"},
        calls |-> [i \in 1..Len(keys) |-> UploadCall(BinnedBucket, keys[i], p, fails)]]

\* The read of reads_by_taxa/reads_summary.json, as an external call.
SummaryCall(p, summary) == [op |-> "open_summary", uuid |-> p.uuid, summary |-> summary]

\* add_taxon_records(payload, result_path, log, s3_client)
add_taxon_records(p, summary, fails, upd) ==
    IF summary.kind = "unreadable"
    THEN \* open() or json.load raises outside any try
         [exc |-> "OSError", shape |-> "pair", failed |-> FALSE, payload |-> p,
          calls |-> <<SummaryCall(p, summary)>>]
    ELSE LET steps == [i \in 1..Len(summary.taxa) |-> TaxonStep(p, summary.taxa[i], fails)]
             nested_records == Flatten([i \in 1..Len(steps) |-> steps[i].records])
             p1 == [p EXCEPT !.ingest_errors =
                        @ \o Flatten([i \in 1..Len(steps) |-> steps[i].errors])]
             upload_fail == \E i \in 1..Len(steps) : steps[i].failed
             u == UpdateEffect(p1, upd)
         IN [exc |-> "none", shape |-> "pair", failed |-> upload_fail \/ u.failed,
             payload |-> u.payload,
             calls |-> <<SummaryCall(p, summary)>>
                       \o Flatten([i \in 1..Len(steps) |-> steps[i].calls])
                       \o <<UpdateCall(p.cid, <<[key |-> "taxa", val |-> nested_records]>>,
                                       upd)>>]

ReportKey(p) == <<p.cid, "_scylla_report.html">>

\* push_report_file(payload, result_path, log, s3_client): the update is
\* made whether or not the upload succeeded, and links <cid>_validation_report.html.
push_report_file(p, fails, upd) ==
    LET upload_fail == ReportKey(p) \in fails
        p1 == IF upload_fail THEN AppendError(p, ReportUploadError) ELSE p
        u == UpdateEffect(p1, upd)
    IN [exc |-> "none", shape |-> "pair", failed |-> upload_fail \/ u.failed,
        payload |-> u.payload,
        calls |-> <<UploadCall(ReportsBucket, ReportKey(p), p, fails),
                    UpdateCall(p.cid,
                        <<[key |-> "validation_report",
                           val |-> Uri(ReportsBucket, <<p.cid, "_validation_report.html">>)]>>,
                        upd)>>]

\* onyx_unsuppress() has no return statement.
onyx_unsuppress == [shape |-> "none"]

(***************************************************************************)
(* run(): the loop body, one action per stage.                             *)
(***************************************************************************)
\* Inbound message bodies: the payload shape of validation_payload_template
\* plus platform; site_code, when the body has that key.
Bodies(siteCodes, cids, onyxErrors) ==
    [uuid : Uuids, project : Projects, site : {"siteA"}, site_code : siteCodes,
     platform : Platforms, cid : cids, created : {FALSE}, ingested : {FALSE},
     onyx_test_create_status : BOOLEAN, onyx_status_code : {0},
     onyx_errors : onyxErrors, onyx_create_status : {FALSE},
     ingest_errors : {<<>>, <<UpstreamError>>},
     test_flag : BOOLEAN, test_ingest_result : {FALSE}]

RunInbound == Bodies({""}, {NoCid, "C-0"}, {<<>>})

TimeoutError == <<"Validation pipeline timeout">>

ExitCodeError(rc) == <<"Scylla exited with non-0 exit code:", RcText(rc)>>

\* Ignored with the project test lost: every message is processed.
IgnoredNever(m) == FALSE

\* Line 697: the message is not for this validator.
Ignored(m) == m.project # "mscapetest"

Crash(e) == pc' = "crashed" /\ exc' = e

\* lines 688-694: receive, json.loads, deepcopy
Receive ==
    /\ pc = "receive"
    /\ passes < MaxPasses
    /\ \E m \in RunInbound :
        /\ inbound' = m
        /\ payload' = m
        /\ site' = m.site
    /\ sent' = <<>>
    /\ calls' = <<>>
    /\ flags' = NoFlags
    /\ passes' = passes + 1
    /\ pc' = "filter"
    /\ UNCHANGED <<exc, store>>

\* lines 697-701
ProjectFilter ==
    /\ pc = "filter"
    /\ pc' = IF Ignored(inbound) THEN "receive" ELSE "precheck"
    /\ UNCHANGED <<inbound, payload, site, sent, calls, exc, passes, flags, store>>

\* PreCheck with the early return lost: the pipeline runs whatever the flag.
PreCheckFallsThrough ==
    /\ pc = "precheck"
    /\ pc' = "execute"
    /\ UNCHANGED <<inbound, payload, site, sent, calls, exc, passes, flags, store>>

\* lines 703-709
PreCheck ==
    /\ pc = "precheck"
    /\ IF ~inbound.onyx_test_create_status
       THEN /\ sent' = Append(sent, ResultsMsg(site, payload))
            /\ pc' = "receive"
       ELSE /\ sent' = sent
            /\ pc' = "execute"
    /\ UNCHANGED <<inbound, payload, site, calls, exc, passes, flags, store>>

\* RunPipeline with the test of rc lost: a non-zero exit goes on to the trace.
RunPipelineIgnoresExitCode ==
    /\ pc = "execute"
    /\ \E out \in SubprocessOutcomes :
        LET r == execute_validation_pipeline(payload, out)
        IN /\ calls' = calls \o r.calls
           /\ IF r.exc # "none"
              THEN Crash(r.exc) /\ UNCHANGED <<payload, sent>>
              ELSE IF r.timeout
              THEN /\ payload' = AppendError(payload, TimeoutError)
                   /\ sent' = Append(sent, ResultsMsg(site, payload'))
                   /\ pc' = "receive"
                   /\ exc' = exc
              ELSE /\ pc' = "interpret"
                   /\ UNCHANGED <<payload, sent, exc>>
    /\ UNCHANGED <<inbound, site, passes, flags, store>>

\* lines 711-749
RunPipeline ==
    /\ pc = "execute"
    /\ \E out \in SubprocessOutcomes :
        LET r == execute_validation_pipeline(payload, out)
        IN /\ calls' = calls \o r.calls
           /\ IF r.exc # "none"
              THEN Crash(r.exc) /\ UNCHANGED <<payload, sent>>
              ELSE IF r.timeout
              THEN /\ payload' = AppendError(payload, TimeoutError)
                   /\ sent' = Append(sent, ResultsMsg(site, payload'))
                   /\ pc' = "receive"
                   /\ exc' = exc
              ELSE IF r.rc # 0
              THEN /\ payload' = AppendError(payload, ExitCodeError(r.rc))
                   /\ sent' = Append(sent, ResultsMsg(site, payload'))
                   /\ pc' = "receive"
                   /\ exc' = exc
              ELSE /\ pc' = "interpret"
                   /\ UNCHANGED <<payload, sent, exc>>
    /\ UNCHANGED <<inbound, site, passes, flags, store>>

\* The read of execution_trace_<uuid>.txt by ret_0_parser, as an external call.
TraceCall(p, t) == [op |-> "open_trace", uuid |-> p.uuid, trace |-> t]

\* lines 751-757: ingest_fail is bound only when ret_0_parser returns.
Interpret ==
    /\ pc = "interpret"
    /\ \E t \in Traces :
        LET r == ret_0_parser(payload, site, t)
        IN /\ payload' = r.payload
           /\ sent' = sent \o r.sent
           /\ calls' = Append(calls, TraceCall(payload, t))
           /\ IF r.exc # "none"
              THEN /\ Crash(r.exc)
                   /\ flags' = [flags EXCEPT !.tried = @ \cup {"interpret"}]
              ELSE /\ pc' = "test_mode"
                   /\ exc' = exc
                   /\ flags' = [flags EXCEPT !.ingest_fail = r.failed,
                                             !.tried = @ \cup {"interpret"}]
    /\ UNCHANGED <<inbound, site, passes, store>>

\* TestMode with the short-circuit lost: the pass goes on to record creation.
TestModeIgnoresFlag ==
    /\ pc = "test_mode"
    /\ pc' = "create"
    /\ UNCHANGED <<inbound, payload, site, sent, calls, exc, passes, flags, store>>

\* TestMode marking the artifact as ingested when it reports the test.
TestModeMarksIngested ==
    /\ pc = "test_mode"
    /\ IF payload.test_flag
       THEN /\ payload' = [payload EXCEPT !.test_ingest_result = TRUE, !.ingested = TRUE]
            /\ sent' = Append(sent, ResultsMsg(site, payload'))
            /\ pc' = "receive"
       ELSE /\ pc' = "create"
            /\ UNCHANGED <<payload, sent>>
    /\ UNCHANGED <<inbound, site, calls, exc, passes, flags, store>>

\* lines 759-769
TestMode ==
    /\ pc = "test_mode"
    /\ IF payload.test_flag
       THEN /\ payload' = [payload EXCEPT !.test_ingest_result = TRUE]
            /\ sent' = Append(sent, ResultsMsg(site, payload'))
            /\ pc' = "receive"
       ELSE /\ pc' = "create"
            /\ UNCHANGED <<payload, sent>>
    /\ UNCHANGED <<inbound, site, calls, exc, passes, flags, store>>

\* The effect of a call of onyx_submission and of lines 778-785 after it.
AfterSubmission(r) ==
    /\ payload' = r.payload
    /\ calls' = calls \o r.calls
    /\ flags' = [flags EXCEPT !.ingest_fail = r.failed, !.tried = @ \cup {"create"}]
    /\ store' = IF r.stored = NoCid THEN store ELSE Append(store, r.stored)
    /\ IF r.exc # "none"
       THEN Crash(r.exc) /\ sent' = sent \o r.sent
       ELSE IF r.failed
       THEN /\ sent' = Append(sent \o r.sent, ResultsMsg(site, r.payload))
            /\ pc' = "receive"
            /\ exc' = exc
       ELSE /\ sent' = sent \o r.sent
            /\ pc' = "publish_reads"
            /\ exc' = exc

\* lines 771-785: the call passes ingest_fail, which onyx_submission does not
\* take, and raises TypeError before the function is entered.
CreateRecord ==
    /\ pc = "create"
    /\ IF ~(RunCreateKeywords \subseteq onyx_submission_params)
       THEN Crash("TypeError") /\ UNCHANGED <<payload, sent, calls, flags, store>>
       ELSE \E out \in CreateOutcomes(NextCid(store)) :
                AfterSubmission(onyx_submission(payload, out))
    /\ UNCHANGED <<inbound, site, passes>>

Init ==
    /\ pc = "receive"
    /\ inbound = [project |-> "none"]
    /\ payload = [project |-> "none"]
    /\ site = ""
    /\ sent = <<>>
    /\ calls = <<>>
    /\ exc = "none"
    /\ passes = 0
    /\ flags = NoFlags
    /\ store = <<>>

Next ==
    \/ Receive
    \/ ProjectFilter
    \/ PreCheck
    \/ RunPipeline
    \/ Interpret
    \/ TestMode
    \/ CreateRecord

Spec == Init /\ [][Next]_vars


(***************************************************************************)
(* run(), lines 791-872: the publish stages.  run() as written never gets  *)
(* here (CreateRecord raises), so these actions are not part of Next; they *)
(* are taken by StageSpec below.                                           *)
(***************************************************************************)
Range(f) == {f[i] : i \in DOMAIN f}

\* `flag, payload = <result>` of lines 791, 806, 817 and 839 needs a pair.
Unpacks(r) == r.shape = "pair"

\* The effect of one publish operation and of the `if <flag>: send` after it.
AfterPublish(r, stage, next) ==
    /\ payload' = r.payload
    /\ calls' = calls \o r.calls
    /\ IF r.exc # "none"
       THEN /\ Crash(r.exc)
            /\ flags' = [flags EXCEPT !.tried = @ \cup {stage}]
            /\ sent' = sent
       ELSE IF ~Unpacks(r)
       THEN /\ Crash("ValueError")
            /\ flags' = [flags EXCEPT !.tried = @ \cup {stage}]
            /\ sent' = sent
       ELSE /\ flags' = [flags EXCEPT ![stage] = r.failed, !.tried = @ \cup {stage}]
            /\ sent' = IF r.failed THEN Append(sent, ResultsMsg(site, r.payload)) ELSE sent
            /\ pc' = next
            /\ exc' = exc

\* lines 791-804
PublishReads ==
    /\ pc = "publish_reads"
    /\ \E fails \in SUBSET Range(ReadsKeys(payload)), upd \in UpdateOutcomes :
        AfterPublish(add_reads_record(payload.cid, payload, fails, upd),
                     "raw", "publish_taxa")
    /\ UNCHANGED <<inbound, site, passes, store>>

\* Every key add_taxon_records may upload to for the summary.
SummaryKeys(p, summary) ==
    UNION {Range(TaxonKeys(p, summary.taxa[i])) : i \in 1..Len(summary.taxa)}

\* lines 806-815
PublishTaxa ==
    /\ pc = "publish_taxa"
    /\ \E summary \in Summaries, upd \in UpdateOutcomes :
         \E fails \in SUBSET SummaryKeys(payload, summary) :
            AfterPublish(add_taxon_records(payload, summary, fails, upd),
                         "binned", "publish_report")
    /\ UNCHANGED <<inbound, site, passes, store>>

\* lines 817-826
PublishReport ==
    /\ pc = "publish_report"
    /\ \E fails \in SUBSET {ReportKey(payload)}, upd \in UpdateOutcomes :
        AfterPublish(push_report_file(payload, fails, upd), "report", "aggregate")
    /\ UNCHANGED <<inbound, site, passes, store>>

NewArtifact(p) == [cid |-> p.cid, site |-> p.site, match_uuid |-> p.uuid]

\* Aggregate with the notification sent on the failure branch as well.
AggregateNotifiesOnFailure ==
    /\ pc = "aggregate"
    /\ IF flags.raw \/ flags.binned \/ flags.report
       THEN /\ sent' = sent \o <<NewArtifactMsg(NewArtifact(payload)),
                                 ResultsMsg(site, payload)>>
            /\ pc' = "receive"
            /\ UNCHANGED <<payload, exc>>
       ELSE IF ~Unpacks(onyx_unsuppress)
       THEN Crash("TypeError") /\ UNCHANGED <<payload, sent>>
       ELSE /\ payload' = [payload EXCEPT !.ingested = TRUE]
            /\ sent' = sent \o <<NewArtifactMsg(NewArtifact(payload')),
                                 ResultsMsg(site, payload')>>
            /\ pc' = "receive"
            /\ exc' = exc
    /\ UNCHANGED <<inbound, site, calls, passes, flags, store>>

\* lines 828-872
Aggregate ==
    /\ pc = "aggregate"
    /\ IF flags.raw \/ flags.binned \/ flags.report
       THEN /\ sent' = Append(sent, ResultsMsg(site, payload))
            /\ pc' = "receive"
            /\ UNCHANGED <<payload, exc>>
       ELSE IF ~Unpacks(onyx_unsuppress)
       THEN Crash("TypeError") /\ UNCHANGED <<payload, sent>>
       ELSE /\ payload' = [payload EXCEPT !.ingested = TRUE]
            /\ sent' = sent \o <<NewArtifactMsg(NewArtifact(payload')),
                                 ResultsMsg(site, payload')>>
            /\ pc' = "receive"
            /\ exc' = exc
    /\ UNCHANGED <<inbound, site, calls, passes, flags, store>>

(***************************************************************************)
(* StageSpec: the create stage and the publish stages entered directly.    *)
(* The create stage is entered as line 771 would enter it with the         *)
(* parameters onyx_submission declares; the publish stages are entered     *)
(* with the payload the 201 branch of onyx_submission leaves.  inbound is  *)
(* the payload at entry.                                                   *)
(***************************************************************************)
FieldXErrors == <<[key |-> "field_x", val |-> <<OtherValue>>]>>

StagePayloads ==
    {b \in Bodies({"", "siteA"}, {NoCid, "C-0"}, {<<>>, FieldXErrors}) :
        /\ b.uuid = "u1"
        /\ b.project = "mscapetest"
        /\ b.onyx_test_create_status
        /\ ~b.test_flag}

Created(cid) ==
    [kind |-> "response", status |-> 201, json_ok |-> TRUE, messages |-> <<>>, cid |-> cid]

PublishPayloads ==
    {CreateDispatch(b, Created("C-1")).payload :
        b \in {x \in StagePayloads :
                  x.cid = NoCid /\ x.site_code = "" /\ x.ingest_errors = <<>>}}

StageInit ==
    /\ \/ /\ pc = "create"
          /\ payload \in StagePayloads
          /\ store = <<>>
       \/ /\ pc = "publish_reads"
          /\ payload \in PublishPayloads
          /\ store = <<"C-1">>
    /\ inbound = payload
    /\ site = payload.site
    /\ sent = <<>>
    /\ calls = <<>>
    /\ exc = "none"
    /\ passes = 1
    /\ flags = NoFlags

\* onyx_submission(log=log, payload=payload, varys_client=varys_client) and
\* lines 778-785
SubmitCall ==
    /\ pc = "create"
    /\ \E out \in CreateOutcomes(NextCid(store)) :
        AfterSubmission(onyx_submission(payload, out))
    /\ UNCHANGED <<inbound, site, passes>>

\* The same inbound message is processed again (by a restarted validator
\* when the pass ended in an exception): a fresh deep copy enters the stage.
Redeliver ==
    /\ pc \in {"receive", "crashed"}
    /\ "create" \in flags.tried
    /\ passes < MaxPasses
    /\ payload' = inbound
    /\ pc' = "create"
    /\ sent' = <<>>
    /\ calls' = <<>>
    /\ exc' = "none"
    /\ flags' = NoFlags
    /\ passes' = passes + 1
    /\ UNCHANGED <<inbound, site, store>>

StageNext ==
    \/ SubmitCall
    \/ Redeliver
    \/ PublishReads
    \/ PublishTaxa
    \/ PublishReport
    \/ Aggregate

StageSpec == StageInit /\ [][StageNext]_vars


(***************************************************************************)
(* Properties.                                                             *)
(***************************************************************************)
\* The pass of the current message is over: run() is back at receive, or
\* an exception has left it.
PassEnded == passes > 0 /\ pc \in {"receive", "crashed"}

IsCall(i, op) == calls[i].op = op

\* The pipeline subprocess of this pass exceeded its budget.
TimedOutPass == \E i \in 1..Len(calls) : IsCall(i, "pipeline") /\ calls[i].timed_out

\* C1: a pass over a message of the validator's project sends exactly one
\* message to the results exchange, whatever the stage outcomes.
C1_ExactlyOneOutcome ==
    (PassEnded /\ inbound.project = "mscapetest") => Len(Results(sent)) = 1

\* C2: a message of another project makes the loop send nothing, call
\* nothing and run no stage; the loop goes back to receive.
C2_IgnoredMessageIsSilent ==
    (passes > 0 /\ inbound.project # "mscapetest") =>
        /\ sent = <<>>
        /\ calls = <<>>
        /\ flags.tried = {}
        /\ payload = inbound
        /\ exc = "none"
        /\ pc \in {"filter", "receive"}

C2_IgnoredMessageSkipped ==
    passes > 0 /\ inbound.project # "mscapetest" /\ pc = "receive"

\* C3: when the pipeline times out, the outcome is sent once with ingest_errors
\* extended by exactly "Validation pipeline timeout", created false and cid
\* unset, and nothing but the pipeline was invoked.
C3_TimeoutOutcome ==
    (TimedOutPass /\ inbound.cid = NoCid) =>
        /\ pc = "receive"
        /\ exc = "none"
        /\ Len(sent) = 1
        /\ IsResults(sent[1])
        /\ sent[1].body.ingest_errors = Append(inbound.ingest_errors, TimeoutError)
        /\ ~sent[1].body.created
        /\ sent[1].body.cid = NoCid
        /\ Len(calls) = 1
        /\ flags.tried = {}

\* C4: pipeline.execute returns timed_out = true, and does not raise, when
\* the subprocess exceeds the budget.
C4_TimeoutIsReturned ==
    \A i \in 1..Len(calls) :
        (IsCall(i, "pipeline") /\ calls[i].timed_out) =>
            (calls[i].raised = "none" /\ calls[i].timeout)

\* C5: no failure of one artifact (pipeline, trace, record store, object
\* storage) ends the loop: no exception leaves run().
C5_LoopSurvivesFailures == exc = "none" /\ pc # "crashed"

\* t is an append-only successor of the error accumulators of p.
AppendOnly(p, t) ==
    /\ IsPrefix(p.ingest_errors, t.ingest_errors)
    /\ \A k \in DictKeys(p.onyx_errors) :
        /\ k \in DictKeys(t.onyx_errors)
        /\ IsPrefix(DictGet(p.onyx_errors, k), DictGet(t.onyx_errors, k))

\* C6: within a pass every step leaves ingest_errors, and every entry of
\* onyx_errors already present, a prefix of its new value.
C6_AccumulatorsAppendOnly ==
    [][passes' = passes => AppendOnly(payload, payload')]_vars

\* The create call of the pass got a 422 response with a messages object.
Got422(i) ==
    /\ IsCall(i, "csv_create")
    /\ calls[i].outcome.kind = "response"
    /\ calls[i].outcome.status = 422
    /\ calls[i].outcome.json_ok

\* C7: after a 422 create response every (field, messages) pair is in
\* onyx_errors, after the messages the field already had, and
\* onyx_submission returns failed.
C7_ValidationMessagesRecorded ==
    \A i \in 1..Len(calls) :
        Got422(i) =>
            /\ exc = "none"
            /\ flags.ingest_fail
            /\ \A j \in 1..Len(calls[i].outcome.messages) :
                LET m == calls[i].outcome.messages[j]
                IN DictGet(payload.onyx_errors, m.key)
                       = DictGet(inbound.onyx_errors, m.key) \o m.val

C7_MessagesAfterEarlierOnes ==
    \E i \in 1..Len(calls) :
        /\ Got422(i)
        /\ "field_x" \in DictKeys(calls[i].outcome.messages)
        /\ DictGet(inbound.onyx_errors, "field_x") # <<>>
        /\ pc = "receive"

\* C8: once the record is created, raw reads, classified reads and report
\* publishing are all attempted before the pass ends.
C8_AllPublishAttempted ==
    (inbound.created /\ pc \in {"receive", "crashed"}) =>
        {"raw", "binned", "report"} \subseteq flags.tried

\* C9: cid is assigned at most once in a pass, only from a 201 create
\* response, and every upload and update of a publish operation carries a
\* non-empty cid.
C9_CidSetOnceAndUsed ==
    /\ Cardinality({i \in 1..Len(calls) : IsCall(i, "csv_create")}) <= 1
    /\ payload.cid # inbound.cid =>
        \E i \in 1..Len(calls) :
            /\ IsCall(i, "csv_create")
            /\ calls[i].outcome.kind = "response"
            /\ calls[i].outcome.status = 201
            /\ payload.cid = calls[i].outcome.cid
    /\ \A i \in 1..Len(calls) :
        (IsCall(i, "upload") \/ IsCall(i, "update")) => calls[i].cid # NoCid

C9_PublishedUnderCid ==
    /\ payload.created
    /\ payload.cid = "C-1"
    /\ \E i \in 1..Len(calls) : IsCall(i, "upload") /\ calls[i].cid = "C-1"
    /\ \E i \in 1..Len(calls) : IsCall(i, "update") /\ calls[i].cid = "C-1"

\* C10: create is never invoked for a payload that carries a cid, and
\* processing one inbound message again and again creates at most one record.
C10_CreateAtMostOnce ==
    /\ \A i \in 1..Len(calls) : IsCall(i, "csv_create") => calls[i].cid_before = NoCid
    /\ ~inbound.created => Len(store) <= 1


\* The create call of the pass got a 201 response whose body parses.
Got201 ==
    \E i \in 1..Len(calls) :
        /\ IsCall(i, "csv_create")
        /\ calls[i].outcome.kind = "response"
        /\ calls[i].outcome.status = 201
        /\ calls[i].outcome.json_ok

\* No external call of the pass failed: every upload succeeded, every update
\* got a 200 response.
NoExternalFailure ==
    \A i \in 1..Len(calls) :
        /\ IsCall(i, "upload") => calls[i].ok
        /\ IsCall(i, "update") =>
              (calls[i].outcome.kind = "response" /\ calls[i].outcome.status = 200)

\* C11: a pass with no error so far whose record is created with 201 and in
\* which no publish call fails ends with ingested = true, both accumulators
\* empty, and exactly two messages: the new-artifact notification carrying
\* the cid, the site and the uuid, then the outcome on the results exchange.
C11_SuccessPath ==
    (/\ PassEnded
     /\ Got201 \/ inbound.created
     /\ NoExternalFailure
     /\ inbound.ingest_errors = <<>>
     /\ inbound.onyx_errors = <<>>) =>
        /\ exc = "none"
        /\ payload.ingested
        /\ payload.cid # NoCid
        /\ payload.ingest_errors = <<>>
        /\ payload.onyx_errors = <<>>
        /\ sent = <<NewArtifactMsg([cid |-> payload.cid, site |-> inbound.site,
                                    match_uuid |-> inbound.uuid]),
                    ResultsMsg(site, payload)>>

\* The pass read the execution trace.
HasTrace == \E i \in 1..Len(calls) : IsCall(i, "open_trace")

\* The trace the pass read.
TraceOf == calls[CHOOSE i \in 1..Len(calls) : IsCall(i, "open_trace")].trace

\* The trace was read to its end.
ReadableTrace == HasTrace /\ TraceOf.kind = "ok"

\* Some process of the trace read ended with a non-zero exit status.
ProcessFailed ==
    \E j \in 1..Len(TraceDict(TraceOf.rows)) : TraceDict(TraceOf.rows)[j].val.exit # "0"

\* C12: when the trace reports a failed process and test_flag is false, the
\* reason is recorded in ingest_errors and record creation is still attempted.
C12_TraceFailureContinues ==
    (PassEnded /\ ReadableTrace /\ ProcessFailed /\ ~inbound.test_flag) =>
        /\ Len(payload.ingest_errors) > Len(inbound.ingest_errors)
        /\ \E i \in 1..Len(calls) : IsCall(i, "csv_create")

\* C13: with test_flag set, pipeline exit 0 and a readable trace, the pass
\* sets test_ingest_result, sends the outcome once with every trace error in
\* it, and stops: nothing but the pipeline and the trace read was invoked and
\* no notification was sent.
C13_TestModeStops ==
    (ReadableTrace /\ inbound.test_flag /\ pc # "test_mode") =>
        /\ pc = "receive"
        /\ exc = "none"
        /\ payload.test_ingest_result
        /\ payload.ingest_errors =
              inbound.ingest_errors \o TraceErrors(TraceDict(TraceOf.rows))
        /\ sent = <<ResultsMsg(site, payload)>>
        /\ \A i \in 1..Len(calls) : calls[i].op \in {"pipeline", "open_trace"}
        /\ flags.tried = {"interpret"}
        /\ store = <<>>

C13_TestModeReported ==
    /\ ReadableTrace
    /\ ProcessFailed
    /\ inbound.test_flag
    /\ pc = "receive"
    /\ payload.test_ingest_result

IsNewArtifact(m) == m.exchange = <<"inbound.new_artifact.mscape">>

\* The new-artifact notifications of the pass.
Notifications == SelectSeq(sent, IsNewArtifact)

\* A stage of the pass reported a failure, or an exception ended the pass.
StageFailed ==
    flags.ingest_fail \/ flags.raw \/ flags.binned \/ flags.report \/ exc # "none"

\* C14: a pass sends at most one new-artifact notification, none when a stage
\* reported a failure, and one only with every publish operation done without
\* failure, ingested = true and both error accumulators empty.
C14_NotifiedOnSuccessOnly ==
    /\ Len(Notifications) <= 1
    /\ StageFailed => Notifications = <<>>
    /\ Notifications # <<>> =>
        /\ {"raw", "binned", "report"} \subseteq flags.tried
        /\ NoExternalFailure
        /\ payload.ingested
        /\ payload.ingest_errors = <<>>
        /\ payload.onyx_errors = <<>>

C14_FailedPassNotNotified ==
    /\ pc = "receive"
    /\ "report" \in flags.tried
    /\ flags.raw \/ flags.binned \/ flags.report
    /\ Len(Results(sent)) >= 1
    /\ Notifications = <<>>

\* C15: when onyx_test_create_status is false the pass sends one message to
\* the results exchange, equal to the inbound body, and invokes nothing: the
\* pipeline is not executed.
C15_PreCheckForwardsUnchanged ==
    (/\ passes > 0
     /\ inbound.project = "mscapetest"
     /\ ~inbound.onyx_test_create_status
     /\ pc \notin {"filter", "precheck"}) =>
        /\ pc = "receive"
        /\ exc = "none"
        /\ sent = <<ResultsMsg(inbound.site, inbound)>>
        /\ payload = inbound
        /\ calls = <<>>
        /\ flags.tried = {}

C15_ForwardedUnchanged ==
    /\ passes > 0
    /\ inbound.project = "mscapetest"
    /\ ~inbound.onyx_test_create_status
    /\ inbound.ingest_errors # <<>>
    /\ pc = "receive"
    /\ Len(sent) = 1

\* The pipeline call i returned without timeout and with a non-zero exit code.
NonZeroExit(i) == IsCall(i, "pipeline") /\ ~calls[i].timed_out /\ calls[i].rc # 0

\* C16: after a non-zero exit without timeout the pass appends one error
\* naming the exit code, sends the outcome once and stops: the trace is not
\* read and no later stage runs.
C16_NonZeroExitStops ==
    \A i \in 1..Len(calls) :
        NonZeroExit(i) =>
            /\ pc = "receive"
            /\ exc = "none"
            /\ payload.ingest_errors =
                  Append(inbound.ingest_errors,
                         <<"Scylla exited with non-0 exit code:", RcText(calls[i].rc)>>)
            /\ sent = <<ResultsMsg(site, payload)>>
            /\ Len(calls) = 1
            /\ flags.tried = {}
            /\ ~payload.test_ingest_result
            /\ store = <<>>

C16_ExitCodeReported ==
    \E i \in 1..Len(calls) :
        /\ NonZeroExit(i)
        /\ calls[i].rc = 2
        /\ inbound.test_flag
        /\ pc = "receive"
        /\ Len(sent) = 1

\* C17: when the trace cannot be opened or parsed, ret_0_parser returns, a
\* reason is appended to ingest_errors, the outcome is sent once and the pass
\* stops: test mode, record creation and publishing are not reached.
C17_UnreadableTraceStops ==
    (HasTrace /\ TraceOf.kind # "ok") =>
        /\ exc = "none"
        /\ pc = "receive"
        /\ Len(payload.ingest_errors) > Len(inbound.ingest_errors)
        /\ sent = <<ResultsMsg(site, payload)>>
        /\ ~payload.test_ingest_result
        /\ \A i \in 1..Len(calls) : calls[i].op \in {"pipeline", "open_trace"}
        /\ flags.tried = {"interpret"}

\* The errors of one trace entry as stated: the human-reads message only for
\* extract_paired_reads or extract_reads exiting with "2".
StatedRowErrors(process, row) ==
    IF row.exit = "0" THEN <<>>
    ELSE IF process \in {"extract_paired_reads", "extract_reads"} /\ row.exit = "2"
    THEN <<HumanReadsError>>
    ELSE <<ProcessError(process, row)>>

\* C18: for every process of the trace, exit "0" appends nothing, exit "2" of
\* extract_paired_reads or extract_reads appends the human-reads message,
\* every other non-zero exit appends the pipeline-failure message naming the
\* process and its exit code; ret_0_parser reports failed exactly when some
\* exit is non-zero.
C18_RowClassification ==
    (pc = "test_mode" /\ ReadableTrace) =>
        LET d == TraceDict(TraceOf.rows)
        IN /\ payload.ingest_errors =
                 inbound.ingest_errors
                    \o Flatten([i \in 1..Len(d) |-> StatedRowErrors(d[i].key, d[i].val)])
           /\ flags.ingest_fail = (\E i \in 1..Len(d) : d[i].val.exit # "0")

\* The create call i got a response whose body parses.
GotResponse(i) ==
    /\ IsCall(i, "csv_create")
    /\ calls[i].outcome.kind = "response"
    /\ calls[i].outcome.json_ok

\* Some text of the client-error bucket of p names the status st.
NamesStatus(p, st) ==
    \E j \in 1..Len(DictGet(p.onyx_errors, ClientErrorsKey)) :
        \E k \in 1..Len(DictGet(p.onyx_errors, ClientErrorsKey)[j]) :
            DictGet(p.onyx_errors, ClientErrorsKey)[j][k] = StatusText(st)

\* C19: onyx_submission returns, with failed = false exactly for status 201;
\* on 201 created is true and cid is the cid of the response; on every other
\* status cid and created are unchanged and onyx_errors has a new error, one
\* naming the status code when the code is unlisted.
C19_CreateStatusMapping ==
    \A i \in 1..Len(calls) :
        GotResponse(i) =>
            LET out == calls[i].outcome
            IN /\ exc = "none"
               /\ flags.ingest_fail = (out.status # 201)
               /\ out.status = 201 =>
                    (payload.created /\ payload.cid = out.cid)
               /\ out.status # 201 =>
                    (payload.cid = inbound.cid /\ payload.created = inbound.created)
               /\ (out.status # 201 /\ (out.status # 422 \/ out.messages # <<>>)) =>
                    payload.onyx_errors # inbound.onyx_errors
               /\ out.status = 418 => NamesStatus(payload, 418)

\* The create stage of the pass ended in an exception of the client: the CSV
\* fetch raised (csv_create was not called), csv_create raised, or the body
\* of the response could not be parsed.
CreateRaised ==
    /\ "create" \in flags.tried
    /\ \/ calls = <<>>
       \/ \E i \in 1..Len(calls) :
            /\ IsCall(i, "csv_create")
            /\ \/ calls[i].outcome.kind = "create_raises"
               \/ /\ calls[i].outcome.kind = "response"
                  /\ ReadsJson(calls[i].outcome.status)
                  /\ ~calls[i].outcome.json_ok

\* C20: when the create call raises, onyx_submission returns failed with a
\* client-error entry in onyx_errors, no exception reaches the loop, and the
\* loop sends the outcome once and stops.
C20_CreateExceptionCaught ==
    CreateRaised =>
        /\ exc = "none"
        /\ pc = "receive"
        /\ flags.ingest_fail
        /\ DictGet(payload.onyx_errors, ClientErrorsKey) # <<>>
        /\ Len(Results(sent)) = 1
        /\ payload.cid = inbound.cid

\* C21: for a platform that is neither ont nor illumina the pass records an
\* error, sends the outcome and stops without invoking the pipeline.
C21_UnknownPlatformFails ==
    (/\ passes > 0
     /\ inbound.project = "mscapetest"
     /\ inbound.onyx_test_create_status
     /\ inbound.platform \notin {"ont", "illumina"}
     /\ pc \notin {"filter", "precheck", "execute"}) =>
        /\ pc = "receive"
        /\ exc = "none"
        /\ calls = <<>>
        /\ Len(payload.ingest_errors) > Len(inbound.ingest_errors)
        /\ Len(sent) = 1

\* The publish stage a call belongs to: uploads by their bucket, updates by
\* the first field they set.
StageBucket(stage) ==
    CASE stage = "raw" -> ReadsBucket
      [] stage = "binned" -> BinnedBucket
      [] stage = "report" -> ReportsBucket

StageField(stage) ==
    CASE stage = "raw" -> "reads_1"
      [] stage = "binned" -> "taxa"
      [] stage = "report" -> "validation_report"

CallOf(i, stage) ==
    \/ IsCall(i, "upload") /\ calls[i].bucket = StageBucket(stage)
    \/ IsCall(i, "update") /\ calls[i].fields[1].key = StageField(stage)

\* The upload i raised, or the update i raised or got a status other than 200.
CallFailed(i) ==
    \/ IsCall(i, "upload") /\ ~calls[i].ok
    \/ /\ IsCall(i, "update")
       /\ ~(calls[i].outcome.kind = "response" /\ calls[i].outcome.status = 200)

PublishStages == {"raw", "binned", "report"}

\* The number of entries of seq equal to e.
Count(seq, e) == Cardinality({j \in 1..Len(seq) : seq[j] = e})

\* C22: a pass in which a publish operation reported failure ends with the
\* accumulated payload as its last message, ingested = false, no new-artifact
\* notification and no call but uploads and updates; the payload carries an
\* error for every failed upload and every update that raised.
C22_FailedPublishReported ==
    (/\ pc = "receive"
     /\ PublishStages \subseteq flags.tried
     /\ flags.raw \/ flags.binned \/ flags.report) =>
        /\ sent # <<>>
        /\ sent[Len(sent)] = ResultsMsg(site, payload)
        /\ ~payload.ingested
        /\ Notifications = <<>>
        /\ \A i \in 1..Len(calls) : calls[i].op \in {"upload", "update", "open_summary"}
        /\ Len(payload.ingest_errors) - Len(inbound.ingest_errors)
              = Cardinality({i \in 1..Len(calls) : IsCall(i, "upload") /\ ~calls[i].ok})
        /\ \A i \in 1..Len(calls) :
              (IsCall(i, "update") /\ calls[i].outcome.kind = "raise") =>
                  Count(DictGet(payload.onyx_errors, ClientErrorsKey),
                        UnhandledClientError(calls[i].outcome.err)) >= 1

\* C23: every publish operation that ran returned a (failed, payload) pair
\* without raising, with failed true exactly when one of its uploads failed
\* or its update raised or got a status other than 200.
C23_PublishReturnsPair ==
    \A s \in flags.tried \cap PublishStages :
        /\ exc = "none"
        /\ flags[s] = (\E i \in 1..Len(calls) : CallOf(i, s) /\ CallFailed(i))

\* C24: every URI that the raw-reads or the report operation passes to
\* update is the bucket and key of a successful upload of the same pass.
C24_LinkedIsUploaded ==
    \A i \in 1..Len(calls) :
        (IsCall(i, "update") /\ (CallOf(i, "raw") \/ CallOf(i, "report"))) =>
            \A j \in 1..Len(calls[i].fields) :
                \E k \in 1..Len(calls) :
                    /\ IsCall(k, "upload")
                    /\ calls[k].ok
                    /\ Uri(calls[k].bucket, calls[k].key) = calls[i].fields[j].val

\* The summary the pass read.
SummaryOf == calls[CHOOSE i \in 1..Len(calls) : IsCall(i, "open_summary")].summary

\* The classified-reads upload to key succeeded in this pass.
BinnedUploaded(key) ==
    \E k \in 1..Len(calls) :
        /\ IsCall(k, "upload")
        /\ calls[k].bucket = BinnedBucket
        /\ calls[k].key = key
        /\ calls[k].ok

\* The sub-record of a taxon as stated: its metrics always, the URI of each
\* upload that succeeded.
StatedTaxonRecord(p, taxa) ==
    [taxon_id |-> taxa.taxon_id, metrics |-> taxa.taxon,
     uris |-> Flatten([j \in 1..Len(TaxonKeys(p, taxa)) |->
                 IF BinnedUploaded(TaxonKeys(p, taxa)[j])
                 THEN <<[key |-> ReadsFieldNames[j],
                         val |-> Uri(BinnedBucket, TaxonKeys(p, taxa)[j])]>>
                 ELSE <<>>])]

\* C25: on ont and illumina the one update of the classified-reads operation
\* carries a sub-record for every taxon of the summary, in summary order,
\* each with its metrics and with the URIs of its successful uploads only,
\* and the uploads of every taxon were attempted.
C25_TaxonRecordsComplete ==
    \A i \in 1..Len(calls) :
        (/\ IsCall(i, "update")
         /\ CallOf(i, "binned")
         /\ payload.platform \in {"ont", "illumina"}) =>
            /\ calls[i].fields[1].val =
                  [j \in 1..Len(SummaryOf.taxa) |->
                      StatedTaxonRecord(payload, SummaryOf.taxa[j])]
            /\ Cardinality({k \in 1..Len(calls) :
                               IsCall(k, "update") /\ CallOf(k, "binned")}) = 1
            /\ Cardinality({k \in 1..Len(calls) :
                               IsCall(k, "upload") /\ calls[k].bucket = BinnedBucket})
                  = Len(Flatten([j \in 1..Len(SummaryOf.taxa) |->
                                    TaxonKeys(payload, SummaryOf.taxa[j])]))

\* The raw-reads uploads of the pass.
ReadsUploads == {i \in 1..Len(calls) : IsCall(i, "upload") /\ calls[i].bucket = ReadsBucket}

\* C26: the raw-reads operation attempts every upload (two for paired-end,
\* one otherwise), calls update exactly when all of them succeeded, and on
\* any upload failure reports failed with one error per failed upload.
C26_ReadsLinkedIffUploaded ==
    "raw" \in flags.tried =>
        /\ Cardinality(ReadsUploads) = IF payload.platform = "illumina" THEN 2 ELSE 1
        /\ (\E i \in 1..Len(calls) : IsCall(i, "update") /\ CallOf(i, "raw"))
              <=> (\A i \in ReadsUploads : calls[i].ok)
        /\ (\E i \in ReadsUploads : ~calls[i].ok) =>
              /\ flags.raw
              /\ Count(payload.ingest_errors, ReadsUploadError)
                    = Cardinality({i \in ReadsUploads : ~calls[i].ok})

C26_SecondUploadAfterFailedFirst ==
    /\ "raw" \in flags.tried
    /\ payload.platform = "illumina"
    /\ \E i \in ReadsUploads, j \in ReadsUploads :
          i < j /\ ~calls[i].ok /\ calls[j].ok
    /\ flags.raw
    /\ ~\E i \in 1..Len(calls) : IsCall(i, "update") /\ CallOf(i, "raw")

\* The short names of the rows, and the last row of a short name.
ShortNames(rows) == {ShortName(rows[j].name) : j \in 1..Len(rows)}

LastRow(rows, n) ==
    rows[CHOOSE j \in 1..Len(rows) :
            /\ ShortName(rows[j].name) = n
            /\ \A k \in (j + 1)..Len(rows) : ShortName(rows[k].name) # n]

\* C27: rows are keyed by the last segment of the process name and the last
\* row of a short name decides: one failure reason is recorded per short name
\* whose last row has a non-zero exit, none for the others.
C27_LastRowWins ==
    (pc = "test_mode" /\ ReadableTrace) =>
        LET failing == {n \in ShortNames(TraceOf.rows) :
                           LastRow(TraceOf.rows, n).exit # "0"}
        IN /\ Len(payload.ingest_errors)
                 = Len(inbound.ingest_errors) + Cardinality(failing)
           /\ flags.ingest_fail = (failing # {})

C27_EarlierFailureOverwritten ==
    /\ pc = "test_mode"
    /\ ReadableTrace
    /\ Len(TraceOf.rows) = 2
    /\ TraceOf.rows[1].name = <<"ingest", "fastp">>
    /\ TraceOf.rows[1].exit = "1"
    /\ TraceOf.rows[2].name = <<"fastp">>
    /\ TraceOf.rows[2].exit = "0"
    /\ payload.ingest_errors = inbound.ingest_errors

\* C28: for an inbound message with created false, cid unset and ingested
\* false, every message on the results exchange has ingested => created and
\* cid set, created <=> cid set, test_ingest_result => neither created nor
\* ingested, and the uuid of the inbound message.
C28_OutcomeInvariants ==
    (passes > 0 /\ ~inbound.created /\ inbound.cid = NoCid /\ ~inbound.ingested) =>
        \A i \in 1..Len(sent) :
            IsResults(sent[i]) =>
                /\ sent[i].body.ingested =>
                      (sent[i].body.created /\ sent[i].body.cid # NoCid)
                /\ sent[i].body.created <=> sent[i].body.cid # NoCid
                /\ sent[i].body.test_ingest_result =>
                      (~sent[i].body.created /\ ~sent[i].body.ingested)
                /\ sent[i].body.uuid = inbound.uuid

C28_TestOutcomeSent ==
    /\ passes > 0
    /\ inbound.cid = NoCid
    /\ inbound.uuid = "u2"
    /\ \E i \in 1..Len(sent) :
          /\ IsResults(sent[i])
          /\ sent[i].body.test_ingest_result
          /\ sent[i].body.ingest_errors # inbound.ingest_errors

====
